---- MODULE Spec2Model ----
(***************************************************************************)
(* A model of VerifitModel (src/models/verifitmodel.py): construction,     *)
(* get_data and the three per-file extractors it calls, _get_freqs,        *)
(* _get_measured_spls and _get_target_spls, and get_diffs with the         *)
(* _to_long_format it calls.  The calls made on the object are those of a  *)
(* driving script such as src/2023_Poster.py.                              *)
(*                                                                         *)
(* A session file is modelled by the answers it gives to the XPath         *)
(* lookups of the code: a node is either Absent (root.find(...).text       *)
(* raises AttributeError) or a text.  A text keeps its tokens and its      *)
(* whitespace, so that two texts can split into the same tokens, or into   *)
(* numerically equal tokens, without being the same string.                *)
(***************************************************************************)
EXTENDS Integers, Sequences, FiniteSets, TLC

VARIABLES files, test_type, desired_freqs, pc, idx, exc,
          freqs_12oct, freqs_audio, df, keys, spl_dfs, target_dfs,
          measured, targets, out,
          script, ip, measured_spls_long, target_spls_long, diffs

long_vars == <<measured_spls_long, target_spls_long, diffs>>

vars == <<files, test_type, desired_freqs, pc, idx, exc, script, ip, long_vars,
          freqs_12oct, freqs_audio, df, keys, spl_dfs, target_dfs,
          measured, targets, out>>

----------------------------------------------------------------------------
(* Program constants *)

LEVELS == <<"soft50", "soft55", "avg60", "avg65", "avg70", "loud75", "loud80">>

SIDES == <<"left", "right">>

CANDIDATES == <<1, 2, 3, 4>>

(* item[-1:] for the seven level tags *)
Last1(item) ==
    CASE item \in {"soft50", "avg60", "avg70", "loud80"} -> "0"
      [] item \in {"soft55", "avg65", "loud75"} -> "5"

(* item[-2:] for the seven level tags *)
Last2(item) ==
    CASE item = "soft50" -> "50"
      [] item = "soft55" -> "55"
      [] item = "avg60"  -> "60"
      [] item = "avg65"  -> "65"
      [] item = "avg70"  -> "70"
      [] item = "loud75" -> "75"
      [] item = "loud80" -> "80"

(* str(num) *)
NumStr(num) ==
    CASE num = 1 -> "1" [] num = 2 -> "2" [] num = 3 -> "3" [] num = 4 -> "4"

(* side + item[-2:], the column of a (level, channel) pair *)
ColName(side, item) == side \o Last2(item)

(* side + 'mpo' *)
MpoColName(side) == side \o "mpo"

(* f"map_{self.test_type}spl{num}" *)
InternalName(tt, num) == "map_" \o tt \o "spl" \o NumStr(num)

(* f'map_{self.test_type}_targetspl{str(num)}' *)
TargetName(tt, num) == "map_" \o tt \o "_targetspl" \o NumStr(num)

----------------------------------------------------------------------------
(* Values *)

Absent == [absent |-> TRUE]

None == "None"

Unset == "unset"

(* No exception has been raised *)
NoExc == [type |-> "none", in |-> ""]

(* A missing cell of a data frame *)
NaN == [w |-> 0, f |-> "nan"]

(* A numeric token: w is its whole part and f the text of its fraction *)
Tok(w, f) == [w |-> w, f |-> f]

(* A text: its tokens and the width of the whitespace between them *)
Text(toks, sp) == [toks |-> toks, sp |-> sp]

(* str.split() *)
Split(text) == text.toks

(* float(token), in tenths *)
Float(tok) ==
    10 * tok.w + (CASE tok.f = ".2" -> 2 [] tok.f = ".5" -> 5 [] tok.f = ".7" -> 7 [] OTHER -> 0)

(* int(round(float(token))), not what the code does *)
IntFloatRounded(tok) == (Float(tok) + 5) \div 10

(* int(float(token)): the fraction is cut off *)
IntFloat(tok) == Float(tok) \div 10

(* The numeric reading of a text *)
FloatsOf(text) == [i \in 1..Len(text.toks) |-> Float(text.toks[i])]

(* seq[:-1], not what the code does *)
DropLast1(s) == IF Len(s) <= 1 THEN <<>> ELSE SubSeq(s, 1, Len(s) - 1)

(* seq[:-2] *)
DropLast2(s) == IF Len(s) <= 2 THEN <<>> ELSE SubSeq(s, 1, Len(s) - 2)

----------------------------------------------------------------------------
(* Python dicts, as the sequence of their (key, value) pairs in insertion
   order *)

DictKeys(d) == {d[i][1] : i \in 1..Len(d)}

DictKeySeq(d) == [i \in 1..Len(d) |-> d[i][1]]

DictGet(d, k) == d[CHOOSE i \in 1..Len(d) : d[i][1] = k][2]

DictSet(d, k, v) ==
    IF k \in DictKeys(d)
    THEN [i \in 1..Len(d) |-> IF d[i][1] = k THEN <<k, v>> ELSE d[i]]
    ELSE Append(d, <<k, v>>)

----------------------------------------------------------------------------
(* XPath lookups on a parsed file *)

(* root.find("./test[@name='frequencies']/data[@name='12ths']") *)
FindFreq12(root) == root.f12

(* root.find("./test[@name='frequencies']/data[@name='audiometric']") *)
FindFreqAudio(root) == root.audiometric

(* root.find(f"./test[@side='{side}']/data[@stim_level='{item}']") *)
FindStimLevel(root, side, item) == root.stim[<<item, side>>]

(* root.find(f"./test[@side='{side}']/data[@stim_type='mpo']") *)
FindMpo(root, side) == root.mpo[side]

(* root.find(f"./test[@side='{side}']/data[@internal='{name}']") *)
FindInternal(root, side, name) ==
    IF name \in DOMAIN root.internal[side] THEN root.internal[side][name] ELSE Absent

----------------------------------------------------------------------------
(* pandas data frames: the ordered column names and the rows; a row keeps
   its identifier columns apart from the cells of its curve columns *)

ColLens(d) == {Len(d[i][2]) : i \in 1..Len(d)}

(* pd.DataFrame(d) followed by insert(loc=0, column='frequency', value=index)
   raises ValueError when the arrays of d differ in length, or when their
   length differs from that of index; a frame of empty arrays takes the
   index of the inserted column and is filled with NaN *)
FrameRaises(d, index) ==
    \/ Cardinality(ColLens(d)) > 1
    \/ \E n \in ColLens(d) : n # 0 /\ n # Len(index)

FrameCell(d, c, i) ==
    LET col == DictGet(d, c) IN IF Len(col) = 0 THEN NaN ELSE col[i]

FrameRows(d, index, filename, data) ==
    [i \in 1..Len(index) |->
        [filename |-> filename, data |-> data, frequency |-> index[i],
         cells |-> [c \in DictKeys(d) |-> FrameCell(d, c, i)]]]

FrameColumns(d) == <<"filename", "data", "frequency">> \o DictKeySeq(d)

SeqToSet(s) == {s[i] : i \in 1..Len(s)}

(* spls[spls['frequency'].isin(wanted)] and reset_index *)
IsIn(rows, wanted) == SelectSeq(rows, LAMBDA r : r.frequency \in SeqToSet(wanted))

(* pd.concat(dfs, ignore_index=True): the union of the columns in order of
   first appearance, the rows of all frames in order, NaN where a frame
   lacks a column *)
RECURSIVE ConcatColumns(_)
ConcatColumns(dfs) ==
    IF dfs = <<>> THEN <<>>
    ELSE LET head == ConcatColumns(SubSeq(dfs, 1, Len(dfs) - 1))
             last == dfs[Len(dfs)].columns
         IN head \o SelectSeq(last, LAMBDA c : c \notin SeqToSet(head))

RECURSIVE ConcatRows(_)
ConcatRows(dfs) ==
    IF dfs = <<>> THEN <<>> ELSE ConcatRows(SubSeq(dfs, 1, Len(dfs) - 1)) \o dfs[Len(dfs)].rows

IdColumns == {"filename", "data", "frequency"}

Concat(dfs) ==
    LET cols == ConcatColumns(dfs)
        rows == ConcatRows(dfs)
    IN [columns |-> cols,
        rows |-> [i \in 1..Len(rows) |->
                    [rows[i] EXCEPT !.cells =
                        [c \in SeqToSet(cols) \ IdColumns |->
                            IF c \in DOMAIN rows[i].cells THEN rows[i].cells[c] ELSE NaN]]]]

----------------------------------------------------------------------------
(* Notices printed to the console *)

Notice(msg, field, value, file) == [msg |-> msg, field |-> field, value |-> value, file |-> file]

FoundData(col) == Notice("verifitmodel: Found data for", col, "", "")

NoData(col) == Notice("verifitmodel: No data for", col, "", "")

NoMpoData(side) == Notice("No data for MPO", side, "", "")

NoTargetData(key, value, file) == Notice("verifitmodel: No data for ->", key, value, file)

----------------------------------------------------------------------------
(* _get_freqs *)

ParseFreqs(text) == [i \in 1..Len(Split(text)) |-> IntFloat(Split(text)[i])]

Freqs12Oct(root) == ParseFreqs(FindFreq12(root))

FreqsAudioOfTwelfths(root) == DropLast2(ParseFreqs(FindFreq12(root)))

FreqsAudio(root) == DropLast2(ParseFreqs(FindFreqAudio(root)))

----------------------------------------------------------------------------
(* _get_measured_spls *)

(* A comparison of the parsed numbers, not what the code does *)
NumbersEqual(vals, text) == FloatsOf(vals) = FloatsOf(text)

(* vals == root.find(...).text, a comparison of strings *)
TextEquals(vals, text) == vals = text

(* One candidate of the search: the body of "for num in [1,2,3,4]".  A read
   of self.test_type that was never set and a candidate node that is absent
   both raise AttributeError, which the inner handler swallows. *)
CandidateStep(root, tt, side, item, vals, p, num) ==
    IF tt = Unset \/ FindInternal(root, side, InternalName(tt, num)) = Absent THEN p
    ELSE IF TextEquals(vals, FindInternal(root, side, InternalName(tt, num)))
         THEN [p EXCEPT !.key_dict = DictSet(@, item, TargetName(tt, num)),
                        !.out = Append(@, FoundData(ColName(side, item)))]
         ELSE p

(* The candidate loop of one (level, channel) pair after its first n
   candidates *)
RECURSIVE CandidateLoop(_, _, _, _, _, _, _)
CandidateLoop(root, tt, side, item, vals, s, n) ==
    IF n = 0 THEN s
    ELSE CandidateStep(root, tt, side, item, vals,
                       CandidateLoop(root, tt, side, item, vals, s, n - 1), CANDIDATES[n])

(* One (level, channel) pair: the body of the nested loops over LEVELS and
   SIDES *)
SpeechStep(root, tt, p, item, side) ==
    IF FindStimLevel(root, side, item) = Absent
    THEN [p EXCEPT !.out = Append(@, NoData(ColName(side, item)))]
    ELSE CandidateLoop(root, tt, side, item, FindStimLevel(root, side, item),
             [p EXCEPT !.spl_dict = DictSet(@, ColName(side, item),
                                           Split(FindStimLevel(root, side, item)))],
             Len(CANDIDATES))

(* (level, channel) pairs in the order of the nested loops *)
PairItem(k) == LEVELS[((k - 1) \div Len(SIDES)) + 1]

PairSide(k) == SIDES[((k - 1) % Len(SIDES)) + 1]

NumPairs == Len(LEVELS) * Len(SIDES)

(* The speech-signal loop after the first k pairs *)
RECURSIVE SpeechLoop(_, _, _)
SpeechLoop(root, tt, k) ==
    IF k = 0 THEN [spl_dict |-> <<>>, key_dict |-> <<>>, out |-> <<>>]
    ELSE SpeechStep(root, tt, SpeechLoop(root, tt, k - 1), PairItem(k), PairSide(k))

(* The MPO loop with its handler around the loop instead of inside it: a
   missing left node ends the loop.  Not what the code does. *)
MpoStepOuterTry(root, p, side) ==
    IF FindMpo(root, side) = Absent
    THEN [p EXCEPT !.out = Append(@, NoMpoData(side))]
    ELSE IF FindMpo(root, SIDES[1]) = Absent THEN p
    ELSE [p EXCEPT !.spl_dict = DictSet(@, MpoColName(side), Split(FindMpo(root, side)))]

(* One side of the MPO loop *)
MpoStep(root, p, side) ==
    IF FindMpo(root, side) = Absent
    THEN [p EXCEPT !.out = Append(@, NoMpoData(side))]
    ELSE [p EXCEPT !.spl_dict = DictSet(@, MpoColName(side), Split(FindMpo(root, side)))]

(* The MPO loop after the first k sides *)
RECURSIVE MpoLoop(_, _, _)
MpoLoop(root, s, k) ==
    IF k = 0 THEN s ELSE MpoStep(root, MpoLoop(root, s, k - 1), SIDES[k])

MeasuredDicts(root, tt) == MpoLoop(root, SpeechLoop(root, tt, NumPairs), Len(SIDES))

(* if self.desired_freqs: ... else: ... *)
WantedFreqsUnlessNone(desired, f_audio) == IF desired # None THEN desired ELSE f_audio

WantedFreqs(desired, f_audio) ==
    IF desired # None /\ desired # <<>> THEN desired ELSE f_audio

(* The result of _get_measured_spls: the frame and the key table, or the
   exception that leaves it *)
GetMeasuredSpls(root, filename, tt, desired, f_12oct, f_audio) ==
    LET s == CHOOSE v \in {MeasuredDicts(root, tt)} : TRUE
    IN IF FrameRaises(s.spl_dict, f_12oct)
       THEN [exc |-> "ValueError", out |-> s.out]
       ELSE [exc |-> "none", out |-> s.out, key_dict |-> s.key_dict,
             spls |-> [columns |-> FrameColumns(s.spl_dict),
                       rows |-> IsIn(FrameRows(s.spl_dict, f_12oct, filename, "measured"),
                                     WantedFreqs(desired, f_audio))]]

----------------------------------------------------------------------------
(* _get_target_spls *)

(* The target loop with its handler around the loop over the sides: a
   missing left node skips the right side of the entry.  Not what the code
   does. *)
TargetStepOuterTry(root, filename, p, entry, side) ==
    IF FindInternal(root, side, entry[2]) = Absent
    THEN [p EXCEPT !.out = Append(@, NoTargetData(entry[1], entry[2], filename))]
    ELSE IF FindInternal(root, SIDES[1], entry[2]) = Absent THEN p
    ELSE [p EXCEPT !.target_dict =
              DictSet(@, ColName(side, entry[1]),
                      DropLast2(Split(FindInternal(root, side, entry[2]))))]

(* One (entry, side) of the loops over test_key.items() and SIDES *)
TargetStep(root, filename, p, entry, side) ==
    IF FindInternal(root, side, entry[2]) = Absent
    THEN [p EXCEPT !.out = Append(@, NoTargetData(entry[1], entry[2], filename))]
    ELSE [p EXCEPT !.target_dict =
              DictSet(@, ColName(side, entry[1]),
                      DropLast2(Split(FindInternal(root, side, entry[2]))))]

(* The loops after the first k steps *)
RECURSIVE TargetLoop(_, _, _, _)
TargetLoop(root, filename, test_key, k) ==
    IF k = 0 THEN [target_dict |-> <<>>, out |-> <<>>]
    ELSE TargetStep(root, filename, TargetLoop(root, filename, test_key, k - 1),
                    test_key[((k - 1) \div Len(SIDES)) + 1], PairSide(k))

TargetDicts(root, filename, test_key) ==
    TargetLoop(root, filename, test_key, Len(test_key) * Len(SIDES))

GetTargetSpls(root, filename, test_key, f_audio) ==
    LET s == CHOOSE v \in {TargetDicts(root, filename, test_key)} : TRUE
    IN IF FrameRaises(s.target_dict, f_audio)
       THEN [exc |-> "ValueError", out |-> s.out]
       ELSE [exc |-> "none", out |-> s.out,
             targets |-> [columns |-> FrameColumns(s.target_dict),
                          rows |-> FrameRows(s.target_dict, f_audio, filename, "target")]]

----------------------------------------------------------------------------
(* __init__ *)

(* self.test_type: never assigned when the option names neither on-ear nor
   test-box *)
TestTypeOf(kwargs) ==
    IF "test_type" \in DOMAIN kwargs
    THEN IF kwargs["test_type"] = "on-ear" THEN "rear"
         ELSE IF kwargs["test_type"] = "test-box" THEN "sar"
         ELSE Unset
    ELSE "rear"

DesiredFreqsOf(kwargs) ==
    IF "freqs" \in DOMAIN kwargs THEN kwargs["freqs"] ELSE None

(* The calls of src/2023_Poster.py on the object it constructs *)
PosterScript == <<"get_data", "get_diffs">>

(* The model object after construction over a directory holding batch, and
   the calls that its script is about to make on it.  No statement of the
   class assigns self.measured_spls_long, self.target_spls_long or
   self.diffs before get_diffs is called. *)
ConstructedFor(batch, kwargs, calls) ==
    /\ script = calls
    /\ ip = 1
    /\ measured_spls_long = Unset
    /\ target_spls_long = Unset
    /\ diffs = Unset
    /\ files = batch
    /\ test_type = TestTypeOf(kwargs)
    /\ desired_freqs = DesiredFreqsOf(kwargs)
    /\ pc = "init"
    /\ idx = 0
    /\ exc = NoExc
    /\ freqs_12oct = Unset
    /\ freqs_audio = Unset
    /\ df = Unset
    /\ keys = Unset
    /\ spl_dfs = Unset
    /\ target_dfs = Unset
    /\ measured = Unset
    /\ targets = Unset
    /\ out = <<>>

Constructed(batch, kwargs) == ConstructedFor(batch, kwargs, PosterScript)

----------------------------------------------------------------------------
(* get_data, one action per stage of its loop *)

Processing(file) == Notice("verifitmodel: Processing", "", "", file)

(* os.path.basename(file)[:-4] *)
Filename(file) == file.stem

(* An exception leaves get_data: its type and the function that raised it *)
Raise(e, where) ==
    /\ pc' = "raised"
    /\ exc' = [type |-> e, in |-> where]

(* The script makes its next call, the ip-th, when the previous one has
   returned; an exception that leaves a call ends the script *)
Calls(method) ==
    /\ pc \in {"init", "done"}
    /\ ip <= Len(script)
    /\ script[ip] = method
    /\ ip' = ip + 1
    /\ UNCHANGED script

(* get_data with the two lists created once and appended to by every call *)
GetDataKeepsLists ==
    /\ Calls("get_data")
    /\ spl_dfs' = IF ip = 1 THEN <<>> ELSE spl_dfs
    /\ target_dfs' = IF ip = 1 THEN <<>> ELSE target_dfs
    /\ idx' = 1
    /\ pc' = IF files = <<>> THEN "concat" ELSE "freqs"
    /\ UNCHANGED <<files, test_type, desired_freqs, exc, freqs_12oct, freqs_audio,
                   df, keys, measured, targets, out, long_vars>>

(* spl_dfs = []; target_dfs = []; entry of the loop over self.files *)
GetData ==
    /\ Calls("get_data")
    /\ spl_dfs' = <<>>
    /\ target_dfs' = <<>>
    /\ idx' = 1
    /\ pc' = IF files = <<>> THEN "concat" ELSE "freqs"
    /\ UNCHANGED <<files, test_type, desired_freqs, exc, freqs_12oct, freqs_audio,
                   df, keys, measured, targets, out, long_vars>>

(* get_data with the grids read from the first file only *)
GetFreqsFirstFileOnly ==
    /\ pc = "freqs"
    /\ out' = Append(out, Processing(files[idx].stem))
    /\ IF idx > 1
       THEN /\ pc' = "measured"
            /\ UNCHANGED <<freqs_12oct, freqs_audio, exc>>
       ELSE IF FindFreq12(files[idx]) = Absent \/ FindFreqAudio(files[idx]) = Absent
       THEN /\ Raise("AttributeError", "_get_freqs")
            /\ UNCHANGED <<freqs_12oct, freqs_audio>>
       ELSE /\ freqs_12oct' = Freqs12Oct(files[idx])
            /\ freqs_audio' = FreqsAudio(files[idx])
            /\ pc' = "measured"
            /\ UNCHANGED exc
    /\ UNCHANGED <<files, test_type, desired_freqs, idx, df, keys, spl_dfs,
                   target_dfs, measured, targets, script, ip, long_vars>>

(* root = ET.parse(file).getroot(); self._get_freqs(root) *)
GetFreqs ==
    /\ pc = "freqs"
    /\ out' = Append(out, Processing(files[idx].stem))
    /\ IF FindFreq12(files[idx]) = Absent
       THEN /\ Raise("AttributeError", "_get_freqs")
            /\ UNCHANGED <<freqs_12oct, freqs_audio>>
       ELSE /\ freqs_12oct' = Freqs12Oct(files[idx])
            /\ IF FindFreqAudio(files[idx]) = Absent
               THEN /\ Raise("AttributeError", "_get_freqs")
                    /\ UNCHANGED freqs_audio
               ELSE /\ freqs_audio' = FreqsAudio(files[idx])
                    /\ pc' = "measured"
                    /\ UNCHANGED exc
    /\ UNCHANGED <<files, test_type, desired_freqs, idx, df, keys, spl_dfs,
                   target_dfs, measured, targets, script, ip, long_vars>>

(* get_data with a key table that keeps the entries of the previous file
   when the search of this file finds none *)
GetMeasuredKeepsKeys ==
    /\ pc = "measured"
    /\ \E r \in {GetMeasuredSpls(files[idx], Filename(files[idx]), test_type,
                                  desired_freqs, freqs_12oct, freqs_audio)} :
          /\ out' = out \o r.out
          /\ IF r.exc # "none"
             THEN /\ Raise(r.exc, "_get_measured_spls")
                  /\ UNCHANGED <<df, keys, spl_dfs>>
             ELSE /\ df' = r.spls
                  /\ keys' = IF idx > 1 /\ r.key_dict = <<>> THEN keys ELSE r.key_dict
                  /\ spl_dfs' = Append(spl_dfs, r.spls)
                  /\ pc' = "targets"
                  /\ UNCHANGED exc
    /\ UNCHANGED <<files, test_type, desired_freqs, idx, freqs_12oct, freqs_audio,
                   target_dfs, measured, targets, script, ip, long_vars>>

(* df, keys = self._get_measured_spls(root, filename); spl_dfs.append(df) *)
GetMeasured ==
    /\ pc = "measured"
    /\ \E r \in {GetMeasuredSpls(files[idx], Filename(files[idx]), test_type,
                                  desired_freqs, freqs_12oct, freqs_audio)} :
          /\ out' = out \o r.out
          /\ IF r.exc # "none"
             THEN /\ Raise(r.exc, "_get_measured_spls")
                  /\ UNCHANGED <<df, keys, spl_dfs>>
             ELSE /\ df' = r.spls
                  /\ keys' = r.key_dict
                  /\ spl_dfs' = Append(spl_dfs, r.spls)
                  /\ pc' = "targets"
                  /\ UNCHANGED exc
    /\ UNCHANGED <<files, test_type, desired_freqs, idx, freqs_12oct, freqs_audio,
                   target_dfs, measured, targets, script, ip, long_vars>>

(* df = self._get_target_spls(root, filename, keys); target_dfs.append(df);
   next file *)
GetTargets ==
    /\ pc = "targets"
    /\ \E r \in {GetTargetSpls(files[idx], Filename(files[idx]), keys, freqs_audio)} :
          /\ out' = out \o r.out
          /\ IF r.exc # "none"
             THEN /\ Raise(r.exc, "_get_target_spls")
                  /\ UNCHANGED <<df, target_dfs, idx>>
             ELSE /\ df' = r.targets
                  /\ target_dfs' = Append(target_dfs, r.targets)
                  /\ idx' = idx + 1
                  /\ pc' = IF idx < Len(files) THEN "freqs" ELSE "concat"
                  /\ UNCHANGED exc
    /\ UNCHANGED <<files, test_type, desired_freqs, freqs_12oct, freqs_audio,
                   keys, spl_dfs, measured, targets, script, ip, long_vars>>

(* self.measured = pd.concat(spl_dfs, ...); self.targets = pd.concat(target_dfs, ...);
   pd.concat of an empty list raises ValueError *)
ConcatDfs ==
    /\ pc = "concat"
    /\ IF spl_dfs = <<>>
       THEN /\ Raise("ValueError", "get_data")
            /\ UNCHANGED <<measured, targets>>
       ELSE /\ measured' = Concat(spl_dfs)
            /\ targets' = Concat(target_dfs)
            /\ pc' = "done"
            /\ UNCHANGED exc
    /\ UNCHANGED <<files, test_type, desired_freqs, idx, freqs_12oct, freqs_audio,
                   df, keys, spl_dfs, target_dfs, out, script, ip, long_vars>>

(* _to_long_format reads self.measured_spls (line 259) and self.target_spls
   (line 279).  No statement of the class assigns either attribute
   (get_data stores its tables in self.measured and self.targets), so each
   try block is left at its first read by the AttributeError handler, which
   prints a notice and assigns neither the long table nor its flag. *)
NoMeasuredSpls == Notice("verifitmodel: No measured_spls data found; skipping it", "", "", "")

NoTargetSpls == Notice("verifitmodel: No target_spls data found; skipping it", "", "", "")

ToLongFormat == <<NoMeasuredSpls, NoTargetSpls>>

(* get_diffs: after _to_long_format, line 304 reads self.measured_spls_long,
   which does not exist; the AttributeError is caught by nobody, so that
   the abort of 306-308 and the diff table of 311-315 are not reached *)
GetDiffs ==
    /\ Calls("get_diffs")
    /\ out' = out \o ToLongFormat
    /\ measured_spls_long = Unset
    /\ Raise("AttributeError", "get_diffs")
    /\ UNCHANGED <<files, test_type, desired_freqs, idx, freqs_12oct, freqs_audio,
                   df, keys, spl_dfs, target_dfs, measured, targets, long_vars>>

Next == GetData \/ GetFreqs \/ GetMeasured \/ GetTargets \/ ConcatDfs \/ GetDiffs

----------------------------------------------------------------------------
(* Session files *)

MkFile(stem, f12, audiometric, stim, mpo, internal) ==
    [stem |-> stem, f12 |-> f12, audiometric |-> audiometric,
     stim |-> stim, mpo |-> mpo, internal |-> internal]

SideSet == SeqToSet(SIDES)

LevelSet == SeqToSet(LEVELS)

CandidateSet == SeqToSet(CANDIDATES)

Slots == SideSet \X CandidateSet

(* A 12ths grid of three frequencies and an audiometric list of two
   frequencies and two trailing entries *)
Grid12 == Text(<<Tok(250, ""), Tok(500, ".0"), Tok(1000, "")>>, 1)

GridAudio == Text(<<Tok(250, ""), Tok(1000, ""), Tok(12500, ""), Tok(16000, "")>>, 1)

(* The curve of the i-th exercised level on the 12ths grid, the first
   curve written with another number format and with another whitespace,
   and a curve one sample short of the grid *)
CurveOf(i) == Text(<<Tok(60 + i, ""), Tok(70 + i, ".5"), Tok(80 + i, "")>>, 1)

CurveA == CurveOf(1)

CurveA0 == Text(<<Tok(61, ".0"), Tok(71, ".5"), Tok(81, "")>>, 1)

CurveAw == Text(CurveA.toks, 2)

CurveShort == Text(<<Tok(61, ""), Tok(71, ".5")>>, 1)

MpoCurve(side) == Text(<<Tok(IF side = "left" THEN 100 ELSE 110, ""), Tok(105, ""), Tok(108, "")>>, 1)

(* The target curve of a slot: different for every side and number *)
TargetCurve(side, num) ==
    LET base == IF side = "left" THEN 20 ELSE 40
    IN Text(<<Tok(base + num, ""), Tok(base + 10 + num, ".2"), Tok(0, ""), Tok(0, "")>>, 1)

TargetShort(side, num) ==
    Text(SubSeq(TargetCurve(side, num).toks, 2, 4), 1)

AllAbsent(S) == [x \in S |-> Absent]

(* The internal nodes of one side: the measured-curve copies spl and the
   target curves tgt, both maps from candidate numbers to texts *)
InternalNodes(ctx, spl, tgt) ==
    LET names == {InternalName(ctx, n) : n \in DOMAIN spl} \cup {TargetName(ctx, n) : n \in DOMAIN tgt}
    IN [name \in names |->
          IF \E n \in DOMAIN spl : name = InternalName(ctx, n)
          THEN spl[CHOOSE n \in DOMAIN spl : name = InternalName(ctx, n)]
          ELSE tgt[CHOOSE n \in DOMAIN tgt : name = TargetName(ctx, n)]]

BothMpo == [side \in SideSet |-> MpoCurve(side)]

----------------------------------------------------------------------------
(* Spec: one session on the on-ear naming scheme in which one level was
   measured.  a and b are the left and right measured nodes of that level,
   S the slots (side, number) holding a copy of CurveA; every target node
   is present. *)

MaxInternal == 3

SlotSets(k) == {S \in SUBSET Slots : Cardinality(S) <= k}

StimTexts == {Absent, CurveA, CurveA0, CurveAw}

OneLevelFile(stem, level, a, b, S) ==
    MkFile(stem, Grid12, GridAudio,
           [p \in LevelSet \X SideSet |->
               IF p[1] = level THEN (IF p[2] = "left" THEN a ELSE b) ELSE Absent],
           BothMpo,
           [side \in SideSet |->
               InternalNodes("rear",
                   [n \in {m \in CandidateSet : <<side, m>> \in S} |-> CurveA],
                   [n \in CandidateSet |-> TargetCurve(side, n)])])

Init ==
    \E level \in LevelSet, a \in StimTexts, b \in StimTexts, S \in SlotSets(MaxInternal) :
        Constructed(<<OneLevelFile("P1", level, a, b, S)>>, <<>>)

Spec == Init /\ [][Next]_vars

----------------------------------------------------------------------------
(* SpecMeasured and SpecTargets: one session in which the first MaxLevels
   levels from avg60 on may have been measured; the i-th of them is stored
   as internal curve i on both sides. *)

MaxLevels == 2

ExercisedLevel(i) == LEVELS[2 + i]

ExercisedIndex(item) == CHOOSE i \in 1..MaxLevels : ExercisedLevel(i) = item

ExercisedSet == {ExercisedLevel(i) : i \in 1..MaxLevels}

NodeKinds == {"absent", "curve", "short"}

NodeOf(kind, curve, short) ==
    IF kind = "absent" THEN Absent ELSE IF kind = "curve" THEN curve ELSE short

(* g gives the kind of every measured node, m of every MPO node and t of
   every target node of the exercised levels *)
ExercisedFile(stem, g, m, t) ==
    MkFile(stem, Grid12, GridAudio,
           [p \in LevelSet \X SideSet |->
               IF p[1] \in ExercisedSet
               THEN NodeOf(g[<<ExercisedIndex(p[1]), p[2]>>], CurveOf(ExercisedIndex(p[1])), CurveShort)
               ELSE Absent],
           [side \in SideSet |-> NodeOf(m[side], MpoCurve(side), CurveShort)],
           [side \in SideSet |->
               InternalNodes("rear",
                   [n \in 1..MaxLevels |-> CurveOf(n)],
                   [n \in {k \in 1..MaxLevels : t[<<k, side>>] # "absent"} |->
                       NodeOf(t[<<n, side>>], TargetCurve(side, n), TargetShort(side, n))])])

InitMeasured ==
    \E g \in [(1..MaxLevels) \X SideSet -> NodeKinds], m \in [SideSet -> NodeKinds] :
        Constructed(<<ExercisedFile("P1", g, m, [p \in (1..MaxLevels) \X SideSet |-> "curve"])>>, <<>>)

SpecMeasured == InitMeasured /\ [][Next]_vars

MeasuredOn(h, i, side) ==
    IF h[i] = "both" \/ (h[i] = "left" /\ side = "left") THEN "curve" ELSE "absent"

InitTargets ==
    \E h \in [1..MaxLevels -> {"both", "left", "none"}],
       t \in [(1..MaxLevels) \X SideSet -> NodeKinds] :
        Constructed(<<ExercisedFile("P1",
                        [p \in (1..MaxLevels) \X SideSet |-> MeasuredOn(h, p[1], p[2])],
                        [side \in SideSet |-> "curve"], t)>>, <<>>)

SpecTargets == InitTargets /\ [][Next]_vars

----------------------------------------------------------------------------
(* SpecBatch: a directory of up to MaxFiles sessions, each a full session
   (avg65 measured on both sides and stored as curve 2), a session without
   speech curves, or a full session lacking one of the frequency nodes *)

MaxFiles == 3

StemOf(i) ==
    CASE i = 1 -> "P1" [] i = 2 -> "P2" [] i = 3 -> "P3" [] i = 4 -> "P4" [] i = 5 -> "P5"

BatchKinds == {"full", "plain", "no12ths", "noaudiometric"}

BatchFile(stem, kind) ==
    LET full == OneLevelFile(stem, "avg65", CurveA, CurveA, {<<"left", 2>>, <<"right", 2>>})
    IN CASE kind = "full" -> full
         [] kind = "plain" -> [full EXCEPT !.stim = AllAbsent(LevelSet \X SideSet)]
         [] kind = "no12ths" -> [full EXCEPT !.f12 = Absent]
         [] kind = "noaudiometric" -> [full EXCEPT !.audiometric = Absent]

InitBatch ==
    \E n \in 0..MaxFiles :
        \E kinds \in [1..n -> BatchKinds] :
            Constructed([i \in 1..n |-> BatchFile(StemOf(i), kinds[i])], <<>>)

SpecBatch == InitBatch /\ [][Next]_vars

----------------------------------------------------------------------------
(* SpecFreqs: one session without curves whose frequency nodes are absent or
   hold up to MaxGrid tokens *)

MaxGrid == 3

FreqToks == {Tok(250, ""), Tok(250, ".0"), Tok(500, ".7")}

RECURSIVE SeqsUpTo(_, _)
SeqsUpTo(S, n) ==
    IF n = 0 THEN {<<>>}
    ELSE SeqsUpTo(S, n - 1) \cup {Append(q, x) : q \in {r \in SeqsUpTo(S, n - 1) : Len(r) = n - 1}, x \in S}

FreqNodes == {Absent} \cup {Text(q, 1) : q \in SeqsUpTo(FreqToks, MaxGrid)}

InitFreqs ==
    \E a \in FreqNodes, b \in FreqNodes :
        Constructed(<<MkFile("P1", a, b, AllAbsent(LevelSet \X SideSet), AllAbsent(SideSet),
                             [side \in SideSet |-> <<>>])>>, <<>>)

SpecFreqs == InitFreqs /\ [][Next]_vars

----------------------------------------------------------------------------
(* What the file says about a (level, channel) pair, read off the file and
   not off the extractors *)

Stim(f, item, side) == f.stim[<<item, side>>]

OtherSide(side) == IF side = "left" THEN "right" ELSE "left"

(* The candidate numbers whose internal node holds exactly the text of the
   pair's measured node *)
MatchSet(f, tt, item, side) ==
    {n \in CandidateSet :
        /\ tt # Unset
        /\ Stim(f, item, side) # Absent
        /\ FindInternal(f, side, InternalName(tt, n)) = Stim(f, item, side)}

Least(S) == CHOOSE x \in S : \A y \in S : x <= y

(* The file whose target table was produced last, that table, and the
   moment at which the key table in keys is still the one of that file *)
AfterTargets == pc \in {"freqs", "concat", "done"} /\ idx > 1

LastFile == files[Len(target_dfs)]

LastTargets == target_dfs[Len(target_dfs)]

CurveColumns(t) == SeqToSet(t.columns) \ IdColumns

ColumnOf(t, c) == [i \in 1..Len(t.rows) |-> t.rows[i].cells[c]]

TargetNode(f, tt, side, n) == FindInternal(f, side, TargetName(tt, n))

----------------------------------------------------------------------------
(* C1: when _get_measured_spls returns, for every (level, channel) pair
   whose measured node exists and matches some candidate, the number
   recorded in the key table is the first candidate, in the order 1, 2, 3,
   4, whose internal node's text equals the measured text.  The pairs
   looked at are those whose level was measured on that channel only, so
   that the level's entry is the entry of the pair. *)
C1_FirstMatchRecorded ==
    pc = "targets" =>
        \A item \in LevelSet, side \in SideSet :
            (/\ Stim(files[idx], item, OtherSide(side)) = Absent
             /\ MatchSet(files[idx], test_type, item, side) # {})
            => /\ item \in DictKeys(keys)
               /\ DictGet(keys, item) =
                     TargetName(test_type, Least(MatchSet(files[idx], test_type, item, side)))

(* C2: every target column of a resolved (level, channel) pair holds the
   target node numbered by a candidate that the pair itself resolved to *)
C2_TargetOfOwnNumber ==
    AfterTargets =>
        \A item \in LevelSet, side \in SideSet :
            (/\ MatchSet(LastFile, test_type, item, side) # {}
             /\ ColName(side, item) \in CurveColumns(LastTargets))
            => \E n \in MatchSet(LastFile, test_type, item, side) :
                  /\ TargetNode(LastFile, test_type, side, n) # Absent
                  /\ ColumnOf(LastTargets, ColName(side, item)) =
                        DropLast2(Split(TargetNode(LastFile, test_type, side, n)))

(* C3: a (level, channel) pair without a measured node, or whose measured
   text equals no candidate's text, has no column in the file's target
   table *)
C3_UnresolvedPairHasNoTarget ==
    AfterTargets =>
        \A item \in LevelSet, side \in SideSet :
            MatchSet(LastFile, test_type, item, side) = {}
            => ColName(side, item) \notin CurveColumns(LastTargets)

(* C4: every entry of the key table, level -> target node of number n, is
   backed by a channel on which the level's measured node exists and its
   text is identical to the text of the internal node numbered n *)
C4_KeyTableSound ==
    pc = "targets" =>
        \A i \in 1..Len(keys) :
            \E side \in SideSet, n \in CandidateSet :
                /\ keys[i][2] = TargetName(test_type, n)
                /\ keys[i][1] \in LevelSet
                /\ Stim(files[idx], keys[i][1], side) # Absent
                /\ FindInternal(files[idx], side, InternalName(test_type, n)) # Absent
                /\ FindInternal(files[idx], side, InternalName(test_type, n))
                      = Stim(files[idx], keys[i][1], side)

(* A key table with an entry, in a file where another measured node equals
   an internal node as numbers but not as text *)
C4_Witness ==
    /\ pc = "targets"
    /\ keys # <<>>
    /\ \E item \in LevelSet, side \in SideSet, n \in CandidateSet :
          /\ Stim(files[idx], item, side) # Absent
          /\ FindInternal(files[idx], side, InternalName(test_type, n)) # Absent
          /\ Stim(files[idx], item, side) # FindInternal(files[idx], side, InternalName(test_type, n))
          /\ FloatsOf(Stim(files[idx], item, side))
                = FloatsOf(FindInternal(files[idx], side, InternalName(test_type, n)))

(* C5: in a file where one level only has measured nodes, on both channels,
   and n is the first candidate matching on either channel, the key table
   is exactly that level -> n and the target table has no column of any
   other level *)
MeasuredLevels(f) == {item \in LevelSet : \E side \in SideSet : Stim(f, item, side) # Absent}

C5_SingleLevelResolved ==
    AfterTargets =>
        \A item \in LevelSet, n \in CandidateSet :
            (/\ MeasuredLevels(LastFile) = {item}
             /\ \A side \in SideSet :
                   /\ MatchSet(LastFile, test_type, item, side) # {}
                   /\ Least(MatchSet(LastFile, test_type, item, side)) = n)
            => /\ keys = << <<item, TargetName(test_type, n)>> >>
               /\ \A other \in LevelSet \ {item}, side \in SideSet :
                     ColName(side, other) \notin CurveColumns(LastTargets)

----------------------------------------------------------------------------
(* C6: a file lacking the 12ths or the audiometric node fails only for
   itself: get_data is never left by the failure of _get_freqs, and when it
   is done the measured and the target table hold the rows of exactly the
   files that have both nodes *)
GoodFiles == {i \in 1..Len(files) : FindFreq12(files[i]) # Absent /\ FindFreqAudio(files[i]) # Absent}

RowFiles(t) == {t.rows[i].filename : i \in 1..Len(t.rows)}

C6_MissingGridFailsOnlyItsFile ==
    /\ ~(pc = "raised" /\ exc.in = "_get_freqs")
    /\ pc = "done" => /\ RowFiles(measured) = {files[i].stem : i \in GoodFiles}
                      /\ RowFiles(targets) = {files[i].stem : i \in GoodFiles}

----------------------------------------------------------------------------
(* C7: a measured node or an MPO node that is missing never raises out of
   _get_measured_spls (the extractor is left by an exception only when a
   present node does not have one sample per frequency of the 12ths grid),
   and the measured table has a column exactly for each (level, channel)
   pair and each channel MPO whose node is present, holding samples of that
   node *)
RaisedIn(where) == pc = "raised" /\ exc.in = where

PresentMeasured(f) ==
    {<<ColName(side, item), Stim(f, item, side)>> :
        <<item, side>> \in {p \in LevelSet \X SideSet : Stim(f, p[1], p[2]) # Absent}}
    \cup {<<MpoColName(side), FindMpo(f, side)>> : side \in {x \in SideSet : FindMpo(f, x) # Absent}}

C7_MissingMeasuredNodeIsSkipped ==
    /\ RaisedIn("_get_measured_spls") =>
          /\ exc.type = "ValueError"
          /\ \E c \in PresentMeasured(files[idx]) : Len(Split(c[2])) # Len(freqs_12oct)
    /\ pc = "targets" =>
          /\ CurveColumns(df) = {c[1] : c \in PresentMeasured(files[idx])}
          /\ \A c \in PresentMeasured(files[idx]) : \A i \in 1..Len(df.rows) :
                df.rows[i].cells[c[1]] \in SeqToSet(Split(c[2]))

(* A measured table built from a file with a missing and a present measured
   node and a missing and a present MPO node *)
C7_Witness ==
    /\ pc = "targets"
    /\ Len(df.rows) > 0
    /\ \E item \in LevelSet : Stim(files[idx], item, "left") = Absent /\ Stim(files[idx], item, "right") # Absent
    /\ FindMpo(files[idx], "left") = Absent
    /\ FindMpo(files[idx], "right") # Absent

----------------------------------------------------------------------------
(* C8: a target node missing for a channel of a key-table entry produces a
   notice and no column, no exception escapes because of it (the extractor
   is left by an exception only when a fetched target does not line up with
   the audiometric grid), and every target node that is present yields its
   column *)
Fetched(f, test_key) ==
    {<<test_key[i][1], test_key[i][2], side>> : i \in 1..Len(test_key), side \in SideSet}

C8_MissingTargetNodeIsSkipped ==
    /\ RaisedIn("_get_target_spls") =>
          /\ exc.type = "ValueError"
          /\ \E e \in Fetched(files[idx], keys) :
                /\ FindInternal(files[idx], e[3], e[2]) # Absent
                /\ Len(Split(FindInternal(files[idx], e[3], e[2]))) - 2 # Len(freqs_audio)
    /\ AfterTargets =>
          \A e \in Fetched(LastFile, keys) :
             IF FindInternal(LastFile, e[3], e[2]) = Absent
             THEN /\ ColName(e[3], e[1]) \notin CurveColumns(LastTargets)
                  /\ \E i \in 1..Len(out) : out[i] = NoTargetData(e[1], e[2], LastFile.stem)
             ELSE /\ ColName(e[3], e[1]) \in CurveColumns(LastTargets)
                  /\ \A i \in 1..Len(LastTargets.rows) :
                        LastTargets.rows[i].cells[ColName(e[3], e[1])]
                           \in SeqToSet(Split(FindInternal(LastFile, e[3], e[2])))

(* A target table built with a key-table entry whose left target node is
   missing and whose right one is present, next to another entry *)
C8_Witness ==
    /\ AfterTargets
    /\ Len(keys) >= 2
    /\ \E i \in 1..Len(keys) :
          /\ FindInternal(LastFile, "left", keys[i][2]) = Absent
          /\ FindInternal(LastFile, "right", keys[i][2]) # Absent
          /\ ColName("right", keys[i][1]) \in CurveColumns(LastTargets)

----------------------------------------------------------------------------
(* C9: every target curve in a file's target table is the tokens of its node
   with exactly the last two removed, and is as long as the file's
   audiometric grid, which is the audiometric list without its last two
   entries *)
AllButLast2(s) == [i \in 1..(Len(s) - 2) |-> s[i]]

----------------------------------------------------------------------------
(* C10: after _get_freqs on a file with both frequency nodes, the 12ths grid
   is the integer part of every token of the 12ths node, in order, and the
   audiometric grid is the integer part of every token of the audiometric
   node but the last two, in order *)
IsIntegerPartOf(n, tok) == 10 * n <= Float(tok) /\ Float(tok) < 10 * n + 10

C10_GridsParsed ==
    pc = "measured" =>
        LET t12 == Split(FindFreq12(files[idx]))
            ta  == Split(FindFreqAudio(files[idx]))
        IN /\ Len(freqs_12oct) = Len(t12)
           /\ \A i \in 1..Len(t12) : IsIntegerPartOf(freqs_12oct[i], t12[i])
           /\ Len(freqs_audio) = IF Len(ta) >= 2 THEN Len(ta) - 2 ELSE 0
           /\ \A i \in 1..Len(freqs_audio) : IsIntegerPartOf(freqs_audio[i], ta[i])

(* Grids parsed from a 12ths node and an audiometric node of three tokens
   with a fraction among them *)
C10_Witness ==
    /\ pc = "measured"
    /\ Len(freqs_12oct) >= 2
    /\ Len(freqs_audio) >= 1
    /\ \E i \in 1..Len(freqs_12oct) : Split(FindFreq12(files[idx]))[i].f = ".7"
    /\ Split(FindFreqAudio(files[idx]))[1].f = ".7"

----------------------------------------------------------------------------
(* C11 as stated: once _get_freqs has returned for a file, the audiometric
   grid has two entries fewer than the 12ths grid *)
C11_AudioIsTwelfthsLessTwo ==
    pc = "measured" => Len(freqs_audio) = Len(freqs_12oct) - 2

(* C11: once _get_freqs has returned for a file, the audiometric grid has
   two entries fewer than the file's own audiometric frequency list, and no
   entry when that list has fewer than two; the 12ths grid has as many
   entries as the 12ths list, whatever the length of the audiometric one *)
C11_AudioIsOwnListLessTwo ==
    pc = "measured" =>
        LET raw == Len(Split(FindFreqAudio(files[idx])))
        IN /\ Len(freqs_audio) = (IF raw >= 2 THEN raw - 2 ELSE 0)
           /\ Len(freqs_12oct) = Len(Split(FindFreq12(files[idx])))

(* Grids taken from a 12ths list shorter than the audiometric list *)
C11_Witness ==
    /\ pc = "measured"
    /\ Len(freqs_audio) = 1
    /\ Len(freqs_12oct) < 3

----------------------------------------------------------------------------
(* SpecOptions: one session, measured at avg65 on both channels and stored
   as curve 2 of the on-ear scheme and as curve 3 of the test-box scheme,
   whose audiometric list holds up to MaxWanted frequencies before its two
   trailing entries; the object is constructed with or without a freqs
   list of up to MaxWanted frequencies and with or without a test_type *)

MaxWanted == 2

AudioToks == {Tok(250, ""), Tok(1000, ""), Tok(4000, "")}

AudioNodes ==
    {Text(q \o <<Tok(12500, ""), Tok(16000, "")>>, 1) : q \in SeqsUpTo(AudioToks, MaxWanted)}

WantedLists == SeqsUpTo({500, 1000, 4000}, MaxWanted)

FreqsOptions ==
    {[given |-> FALSE, list |-> <<>>]} \cup {[given |-> TRUE, list |-> d] : d \in WantedLists}

TestTypeOptions == {"omitted", "on-ear", "test-box", "speechmap"}

Kwargs(fopt, topt) ==
    (IF fopt.given THEN ("freqs" :> fopt.list) ELSE <<>>)
    @@ (IF topt # "omitted" THEN ("test_type" :> topt) ELSE <<>>)

OptionFile(stem, audio) ==
    MkFile(stem, Grid12, audio,
           [p \in LevelSet \X SideSet |-> IF p[1] = "avg65" THEN CurveA ELSE Absent],
           BothMpo,
           [side \in SideSet |->
               InternalNodes("rear", [n \in {2} |-> CurveA],
                             [n \in CandidateSet |-> TargetCurve(side, n)])
               @@ InternalNodes("sar", [n \in {3} |-> CurveA],
                                [n \in CandidateSet |-> TargetCurve(side, n)])])

InitOptions ==
    \E audio \in AudioNodes, fopt \in FreqsOptions, topt \in TestTypeOptions :
        /\ fopt.given => topt \in {"omitted", "test-box"}
        /\ Constructed(<<OptionFile("P1", audio)>>, Kwargs(fopt, topt))

SpecOptions == InitOptions /\ [][Next]_vars

----------------------------------------------------------------------------
(* The rows that a frequency filter keeps: the positions of the 12ths grid
   whose frequency is wanted, in the order of the grid *)
Kept(wanted) == {i \in 1..Len(freqs_12oct) : freqs_12oct[i] \in SeqToSet(wanted)}

KthOf(S, k) == CHOOSE i \in S : Cardinality({j \in S : j < i}) = k - 1

(* The measured table of the file holds exactly the rows of the 12ths grid
   at the positions of K, in order, each with the sample of every present
   node at that position *)
RowsAre(K) ==
    /\ Len(df.rows) = Cardinality(K)
    /\ \A k \in 1..Len(df.rows) :
          /\ df.rows[k].frequency = freqs_12oct[KthOf(K, k)]
          /\ \A c \in PresentMeasured(files[idx]) :
                df.rows[k].cells[c[1]] = Split(c[2])[KthOf(K, k)]

(* C12 as stated: the measured table of a file keeps exactly the rows of
   the 12ths grid whose frequency is in the caller's list when a list was
   given, and in the file's audiometric grid otherwise *)
C12_RowsOfGivenListElseAudiometric ==
    pc = "targets" =>
        RowsAre(Kept(IF desired_freqs # None THEN desired_freqs ELSE freqs_audio))

(* C12: the measured table of a file keeps exactly the rows of the 12ths
   grid whose frequency is in the caller's list when a list with at least
   one frequency was given, and in the file's audiometric grid when no list
   or an empty list was given; the rows keep the order of the grid and each
   row keeps the samples found at its position in the nodes *)
C12_RowsOfNonEmptyListElseAudiometric ==
    pc = "targets" =>
        LET given == IF desired_freqs = None THEN FALSE ELSE Len(desired_freqs) > 0
        IN RowsAre(Kept(IF given THEN desired_freqs ELSE freqs_audio))

(* An empty list was given and the rows of the audiometric grid were kept *)
C12_Witness ==
    /\ pc = "targets"
    /\ desired_freqs # None
    /\ desired_freqs = <<>>
    /\ Len(df.rows) = 2
    /\ df.rows[2].frequency = 1000
    /\ df.rows[2].cells["left65"] = Tok(81, "")

----------------------------------------------------------------------------
(* C18: whatever test_type the object was constructed with, one of the two
   naming schemes, rear or sar, is selected, and the candidate search of a
   file runs against it: a level measured and stored under a candidate
   number of the selected scheme gets its key-table entry *)
C18_SchemeAlwaysSelected ==
    pc = "targets" =>
        /\ test_type \in {"rear", "sar"}
        /\ \A item \in LevelSet :
              (\E side \in SideSet, n \in CandidateSet :
                    /\ Stim(files[idx], item, side) # Absent
                    /\ FindInternal(files[idx], side, InternalName(test_type, n)) = Stim(files[idx], item, side))
              => item \in DictKeys(keys)

----------------------------------------------------------------------------
(* The script has made its last call: get_data has returned, its wide tables
   are stored, and get_diffs has been called on them *)
DiffsAsked == ip > Len(script)

(* The cells of a wide table: (file, frequency, condition column), and the
   value of a cell *)
WideCells(t) ==
    {<<t.rows[i].filename, t.rows[i].frequency, c>> : i \in 1..Len(t.rows), c \in CurveColumns(t)}

CellValues(t, k) ==
    {t.rows[i].cells[k[3]] : i \in {j \in 1..Len(t.rows) :
                                        t.rows[j].filename = k[1] /\ t.rows[j].frequency = k[2]}}

RowKey(r) == <<r.filename, r.frequency, r.condition>>

(* C13: get_diffs leaves a diff table in which every row's difference is
   its measured value minus its target value when both are present, and is
   absent when either is absent; a cell that has both a measured and a
   target value in the wide tables has such a row *)
C13_DifferenceIsMeasuredMinusTarget ==
    DiffsAsked =>
        /\ diffs # Unset
        /\ \A i \in 1..Len(diffs.rows) :
              LET r == diffs.rows[i]
              IN IF r.measured # NaN /\ r.targets # NaN
                 THEN r.difference = Float(r.measured) - Float(r.targets)
                 ELSE r.difference = NaN
        /\ \A k \in WideCells(measured) \cap WideCells(targets) :
              (CellValues(measured, k) # {NaN} /\ CellValues(targets, k) # {NaN})
              => \E i \in 1..Len(diffs.rows) :
                    RowKey(diffs.rows[i]) = k /\ diffs.rows[i].difference # NaN

(* C14: the diff table left by get_diffs is the outer join of the two long
   tables on (file, frequency, condition): it has exactly one row for every
   key that has a measured or a target cell, holding the measured and the
   target value of that key, absent on the side that lacks the key *)
C14_DiffsJoinOnCompositeKey ==
    DiffsAsked =>
        /\ diffs # Unset
        /\ {RowKey(diffs.rows[i]) : i \in 1..Len(diffs.rows)} = WideCells(measured) \cup WideCells(targets)
        /\ Len(diffs.rows) = Cardinality(WideCells(measured) \cup WideCells(targets))
        /\ \A i \in 1..Len(diffs.rows) :
              LET r == diffs.rows[i]
              IN /\ IF RowKey(r) \in WideCells(measured)
                    THEN r.measured \in CellValues(measured, RowKey(r))
                    ELSE r.measured = NaN
                 /\ IF RowKey(r) \in WideCells(targets)
                    THEN r.targets \in CellValues(targets, RowKey(r))
                    ELSE r.targets = NaN

----------------------------------------------------------------------------
(* C20: _to_long_format leaves, for the measured and for the target wide
   table, a long table with exactly one row per (file, frequency, condition
   column) cell, holding the value of that cell, and no row for the
   identifier columns; the wide table can therefore be read back from it *)
IsLongOf(long, wide) ==
    /\ Len(long.rows) = Cardinality(WideCells(wide))
    /\ {RowKey(long.rows[i]) : i \in 1..Len(long.rows)} = WideCells(wide)
    /\ \A i \in 1..Len(long.rows) :
          long.rows[i].value \in CellValues(wide, RowKey(long.rows[i]))

C20_LongHasOneRowPerCell ==
    DiffsAsked =>
        /\ measured_spls_long # Unset
        /\ target_spls_long # Unset
        /\ IsLongOf(measured_spls_long, measured)
        /\ IsLongOf(target_spls_long, targets)

----------------------------------------------------------------------------
(* C17: when no file of the directory yields measured data, the empty
   directory included, the script is ended by the abort of get_diffs and its
   notice: no call is left by an exception, and the last call does not
   return over empty tables *)
NoFileYieldsData == \A i \in 1..Len(files) : PresentMeasured(files[i]) = {}

Aborting ==
    Notice("verifitmodel: Calculating the difference requires both target and measured data! Aborting!",
           "", "", "")

C17_EmptyResultAborts ==
    NoFileYieldsData =>
        /\ pc # "raised"
        /\ DiffsAsked => (pc = "exited" /\ Aborting \in SeqToSet(out))

----------------------------------------------------------------------------
(* SpecSessions: a directory of up to MaxFiles sessions that differ in their
   grids and in what was measured, on which get_data is called up to
   MaxRuns times before get_diffs *)

MaxRuns == 2

SessionScripts == {[i \in 1..(k + 1) |-> IF i <= k THEN "get_data" ELSE "get_diffs"] : k \in 1..MaxRuns}

(* Another 12ths grid and another audiometric list *)
Grid12High == Text(<<Tok(500, ""), Tok(2000, ""), Tok(4000, ".0")>>, 1)

GridAudioHigh == Text(<<Tok(500, ""), Tok(4000, ""), Tok(12500, ""), Tok(16000, "")>>, 1)

SessionKinds == {"avg65", "loud80", "plain"}

(* avg65 measured on both channels and stored as curve 2; loud80 measured on
   the left only, stored as curves 1 and 3, on the other grids; no speech
   curve *)
SessionFile(stem, kind) ==
    CASE kind = "avg65" -> OneLevelFile(stem, "avg65", CurveA, CurveA, {<<"left", 2>>, <<"right", 2>>})
      [] kind = "loud80" ->
            [OneLevelFile(stem, "loud80", CurveA, Absent, {<<"left", 1>>, <<"left", 3>>})
                EXCEPT !.f12 = Grid12High, !.audiometric = GridAudioHigh]
      [] kind = "plain" -> OneLevelFile(stem, "avg65", Absent, Absent, {})

InitSessions ==
    \E n \in 0..MaxFiles, calls \in SessionScripts :
        \E kinds \in [1..n -> SessionKinds] :
            ConstructedFor([i \in 1..n |-> SessionFile(StemOf(i), kinds[i])], <<>>, calls)

SpecSessions == InitSessions /\ [][Next]_vars

----------------------------------------------------------------------------
(* The grids held by the object are those parsed from the nodes of file f *)
GridsAreOf(f) ==
    LET t12 == Split(FindFreq12(f))
        ta == Split(FindFreqAudio(f))
    IN /\ Len(freqs_12oct) = Len(t12)
       /\ \A i \in 1..Len(t12) : IsIntegerPartOf(freqs_12oct[i], t12[i])
       /\ Len(freqs_audio) = Len(ta) - 2
       /\ \A i \in 1..Len(freqs_audio) : IsIntegerPartOf(freqs_audio[i], ta[i])

(* The levels of f that some channel resolves to a candidate *)
ResolvedLevels(f) ==
    {item \in LevelSet : \E side \in SideSet : MatchSet(f, test_type, item, side) # {}}

(* C15: for every file of get_data the stages run in the order grids,
   measured table with key table, target table.  The measured extraction
   of the idx-th file starts with the grids of that file and idx - 1 tables
   in either list; the target extraction starts with the grids of that
   file, the file's measured table stored, and a key table that has an
   entry for exactly the levels the file resolves; the target table has
   exactly the columns that this key table names and the file holds *)
C15_StagesInOrder ==
    /\ pc = "measured" =>
          /\ GridsAreOf(files[idx])
          /\ Len(spl_dfs) = idx - 1
          /\ Len(target_dfs) = idx - 1
    /\ pc = "targets" =>
          /\ GridsAreOf(files[idx])
          /\ Len(spl_dfs) = idx
          /\ spl_dfs[idx] = df
          /\ Len(target_dfs) = idx - 1
          /\ DictKeys(keys) = ResolvedLevels(files[idx])
    /\ AfterTargets =>
          /\ Len(target_dfs) = Len(spl_dfs)
          /\ CurveColumns(LastTargets) =
                {ColName(side, item) : <<side, item>> \in
                    {p \in SideSet \X DictKeys(keys) :
                        FindInternal(LastFile, p[1], DictGet(keys, p[2])) # Absent}}

(* The target extraction of a second file, on other grids than the first,
   about to start with a key table of one entry *)
C15_Witness ==
    /\ pc = "targets"
    /\ idx = 2
    /\ FindFreq12(files[1]) # FindFreq12(files[2])
    /\ Len(keys) = 1

----------------------------------------------------------------------------
(* A file and a table without the name of the file *)
Unnamed(f) == [f EXCEPT !.stem = ""]

UnnamedRows(t) ==
    [columns |-> t.columns,
     rows |-> [i \in 1..Len(t.rows) |-> [t.rows[i] EXCEPT !.filename = ""]]]

(* C16: what get_data computes for a file depends on that file only.  The
   key table in use for a file has entries for levels measured in that file
   only, the grids are those of the file, and two files of the directory
   with the same content get the same measured table and the same target
   table, whatever files were processed before either of them *)
C16_FileResultsIndependent ==
    /\ pc = "targets" =>
          /\ DictKeys(keys) \subseteq MeasuredLevels(files[idx])
          /\ GridsAreOf(files[idx])
    /\ \A i \in 1..Len(files), j \in 1..Len(files) :
          Unnamed(files[i]) = Unnamed(files[j]) =>
              /\ (pc # "init" /\ i <= Len(spl_dfs) /\ j <= Len(spl_dfs))
                    => UnnamedRows(spl_dfs[i]) = UnnamedRows(spl_dfs[j])
              /\ (pc # "init" /\ i <= Len(target_dfs) /\ j <= Len(target_dfs))
                    => UnnamedRows(target_dfs[i]) = UnnamedRows(target_dfs[j])

(* Two sessions with the same content, processed first and third, around a
   session with other grids and another level *)
C16_Witness ==
    /\ pc = "done"
    /\ Len(files) = 3
    /\ Unnamed(files[1]) = Unnamed(files[3])
    /\ Unnamed(files[1]) # Unnamed(files[2])
    /\ FindFreq12(files[1]) # FindFreq12(files[2])
    /\ Len(target_dfs) = 3
    /\ CurveColumns(target_dfs[1]) # CurveColumns(target_dfs[2])

----------------------------------------------------------------------------
(* C19: a call of get_data on an object whose earlier call has returned
   stores the same measured table and the same target table as that
   earlier call, and is left by no exception *)
C19_GetDataIdempotent ==
    [][(ip > 2 /\ script[ip - 1] = "get_data" /\ pc \in {"freqs", "measured", "targets", "concat"})
        => /\ (pc = "concat" /\ pc' = "done") => (measured' = measured /\ targets' = targets)
           /\ pc' # "raised"]_vars

(* A second call of get_data that has returned, over two different sessions *)
C19_Witness ==
    /\ pc = "done"
    /\ ip = 3
    /\ script[2] = "get_data"
    /\ Len(files) >= 2
    /\ Unnamed(files[1]) # Unnamed(files[2])
    /\ Len(measured.rows) > 0

----------------------------------------------------------------------------
(* The messages that get_data and get_diffs can print: about a file being
   processed, a measured curve, an MPO curve, a target curve or a long
   table.  None of them is about an aided metric. *)
PrintedMsgs ==
    {Processing("").msg, FoundData("").msg, NoData("").msg, NoMpoData("").msg,
     NoTargetData("", "", "").msg, NoMeasuredSpls.msg, NoTargetSpls.msg, Aborting.msg}

(* C21: for each entry of a file's key table the aided metric of the entry
   is extracted into an aided-metric table or, its node missing, a notice
   about the metric is printed.  The object holds the measured and the
   target table only, and the sessions explored hold no aided-metric node,
   so that by the end of the file's processing every file with a key-table
   entry has a notice that is about none of the other data *)
C21_AidedMetricOrNotice ==
    AfterTargets =>
        (DictKeys(keys) # {} =>
            \E i \in 1..Len(out) : out[i].file \in {"", LastFile.stem} /\ out[i].msg \notin PrintedMsgs)

----------------------------------------------------------------------------
(* C22: by the end of a file's processing, every (level, channel) pair
   without a measured column, and every pair with a measured node but
   without a target column, has a notice that names the pair's column or
   its level as having no data *)
MissingNotice(item, side) ==
    \E i \in 1..Len(out) :
        /\ out[i].msg \in {NoData("").msg, NoTargetData("", "", "").msg}
        /\ out[i].field \in {ColName(side, item), item}

C22_NoSilentLoss ==
    AfterTargets =>
        \A item \in LevelSet, side \in SideSet :
            /\ ColName(side, item) \notin CurveColumns(spl_dfs[Len(target_dfs)])
                  => MissingNotice(item, side)
            /\ (/\ Stim(LastFile, item, side) # Absent
                /\ ColName(side, item) \notin CurveColumns(LastTargets))
                  => MissingNotice(item, side)

----------------------------------------------------------------------------
(* The fourteen columns <channel><two digits> of the seven levels *)
PairColumns ==
    {"left50", "left55", "left60", "left65", "left70", "left75", "left80",
     "right50", "right55", "right60", "right65", "right70", "right75", "right80"}

MpoColumns == {"leftmpo", "rightmpo"}

(* Every (level, channel) pair writes to its column <channel><last two
   characters of the level tag>, and no two pairs write to the same one *)
PairNamingInjective ==
    /\ {ColName(side, item) : side \in SideSet, item \in LevelSet} = PairColumns
    /\ \A s1 \in SideSet, s2 \in SideSet, i1 \in LevelSet, i2 \in LevelSet :
          ColName(s1, i1) = ColName(s2, i2) => (s1 = s2 /\ i1 = i2)
    /\ ColName("left", "avg65") = "left65"
    /\ ColName("right", "loud80") = "right80"

(* C23 as stated: every curve column of the measured and of the target
   table of a file is one of the fourteen columns <channel><two digits>,
   and the naming of the pairs is injective *)
C23_EveryColumnIsOfAPair ==
    /\ PairNamingInjective
    /\ pc = "targets" => CurveColumns(df) \subseteq PairColumns
    /\ AfterTargets => CurveColumns(LastTargets) \subseteq PairColumns

(* C23: every curve column of the target table, and every curve column of
   the measured table but the MPO columns leftmpo and rightmpo, is the
   column <channel><two digits> of a (level, channel) pair; the naming of
   the pairs is injective and apart from the MPO names, so that every
   column of a file's measured table holds the samples of its own node *)
C23_ColumnsOfPairsAndMpo ==
    /\ PairNamingInjective
    /\ {MpoColName(side) : side \in SideSet} = MpoColumns
    /\ pc = "targets" =>
          /\ CurveColumns(df) =
                {ColName(p[2], p[1]) : p \in {q \in LevelSet \X SideSet : Stim(files[idx], q[1], q[2]) # Absent}}
                \cup {MpoColName(side) : side \in {x \in SideSet : FindMpo(files[idx], x) # Absent}}
          /\ CurveColumns(df) \subseteq PairColumns \cup MpoColumns
          /\ RowsAre(Kept(freqs_audio))
    /\ AfterTargets => CurveColumns(LastTargets) \subseteq PairColumns

(* A measured table with the columns of two levels on both channels and of
   both MPO curves *)
C23_Witness ==
    /\ pc = "targets"
    /\ {"left60", "right60", "left65", "right65", "leftmpo", "rightmpo"} \subseteq CurveColumns(df)
    /\ Len(df.rows) = 2

----------------------------------------------------------------------------
(* C24: when the script of src/2023_Poster.py, get_data() then get_diffs(),
   has made both calls on a directory in which some file has a measured
   and a target curve, get_diffs has returned and the diff table is
   defined: no exception has left it *)
C24_PosterScriptTerminates ==
    (/\ script = PosterScript
     /\ DiffsAsked
     /\ CurveColumns(measured) \cap PairColumns # {}
     /\ CurveColumns(targets) # {})
    => /\ pc = "done"
       /\ exc = NoExc
       /\ diffs # Unset

----------------------------------------------------------------------------
(* The candidate search of the prototype script src/proto.py, which reads
   one session on the on-ear scheme.  Its loop over the candidates has no
   handler of its own: the AttributeError of an absent candidate node
   leaves the loop for the handler of the pair, after the pair's measured
   samples were stored. *)
ProtoTestType == "rear"

RECURSIVE ProtoCandidateLoop(_, _, _, _, _, _)
ProtoCandidateLoop(root, side, item, vals, key_dict, n) ==
    IF n > Len(CANDIDATES) THEN key_dict
    ELSE IF FindInternal(root, side, InternalName(ProtoTestType, CANDIDATES[n])) = Absent
         THEN key_dict
         ELSE ProtoCandidateLoop(root, side, item, vals,
                  IF TextEquals(vals, FindInternal(root, side, InternalName(ProtoTestType, CANDIDATES[n])))
                  THEN DictSet(key_dict, item, TargetName(ProtoTestType, CANDIDATES[n]))
                  ELSE key_dict,
                  n + 1)

ProtoSpeechStep(root, p, item, side) ==
    IF FindStimLevel(root, side, item) = Absent THEN p
    ELSE [spl_dict |-> DictSet(p.spl_dict, ColName(side, item), Split(FindStimLevel(root, side, item))),
          key_dict |-> ProtoCandidateLoop(root, side, item, FindStimLevel(root, side, item),
                                          p.key_dict, 1)]

RECURSIVE ProtoSpeechLoop(_, _)
ProtoSpeechLoop(root, k) ==
    IF k = 0 THEN [spl_dict |-> <<>>, key_dict |-> <<>>]
    ELSE ProtoSpeechStep(root, ProtoSpeechLoop(root, k - 1), PairItem(k), PairSide(k))

(* The search of _get_measured_spls keeps the column of every pair that has
   a measured node and finds the match of a pair at whatever candidate it
   is, the nodes of other candidates absent or not: the level then has an
   entry naming a candidate that matches on some channel *)
ClassSearchTestsAllCandidates ==
    pc = "targets" =>
        \A item \in LevelSet, side \in SideSet :
            Stim(files[idx], item, side) # Absent =>
                /\ ColName(side, item) \in CurveColumns(df)
                /\ MatchSet(files[idx], test_type, item, side) # {} =>
                      /\ item \in DictKeys(keys)
                      /\ \E s \in SideSet : \E n \in MatchSet(files[idx], test_type, item, s) :
                            DictGet(keys, item) = TargetName(test_type, n)

(* The same of the search of src/proto.py run on the file *)
ProtoSearchTestsAllCandidates ==
    pc = "targets" =>
        LET proto == ProtoSpeechLoop(files[idx], NumPairs)
        IN \A item \in LevelSet, side \in SideSet :
               Stim(files[idx], item, side) # Absent =>
                   /\ ColName(side, item) \in DictKeys(proto.spl_dict)
                   /\ MatchSet(files[idx], ProtoTestType, item, side) # {} =>
                         item \in DictKeys(proto.key_dict)

(* C25: in the candidate search, of _get_measured_spls and of the prototype
   script alike, a candidate whose internal node is absent is skipped and
   the search goes on: a pair with a measured node keeps its column, and
   its match is found at whatever candidate it is *)
C25_AbsentCandidateIsSkipped ==
    ClassSearchTestsAllCandidates /\ ProtoSearchTestsAllCandidates

============================================================================
